---- MODULE Spec2Model ----
(***************************************************************************)
(* good-blocks: block-device health scanner.                               *)
(*                                                                         *)
(* The module models the latency taxonomy (src/src/time_categories.c),     *)
(* the retest of suspect sectors (src/src/retest.c) and the scan loop      *)
(* (src/src/scanner.c) as state machines.                                  *)
(*                                                                         *)
(*   Spec     one call of scan_device, from entry to return, with the      *)
(*            signal handler running asynchronously;                       *)
(*   SpecTax  any sequence of the taxonomy-updating operations applied to  *)
(*            an initialized taxonomy;                                     *)
(*   SpecPure the functions of the program that compute a value from their *)
(*            arguments alone, applied to arguments drawn from bounded     *)
(*            sets.                                                        *)
(***************************************************************************)
EXTENDS Integers, Sequences, FiniteSets, TLC

(***************************************************************************)
(* Bounds of the model.                                                    *)
(***************************************************************************)
\* number of sectors of the modelled device
TotalSectors == 3
\* rand()/RAND_MAX is drawn from {0/RandDen, ..., RandDen/RandDen}
RandDen == 2
\* number of taxonomy operations applied in SpecTax
MaxOps == 3
\* retest latencies handed to the averaging functions are drawn from 0..MaxLatency
MaxLatency == 3

(***************************************************************************)
(* TimeCategoryType, time_categories.h                                     *)
(***************************************************************************)
TimeCategoryType ==
    {"Excellent", "Good", "Normal", "General", "Poor", "Severe", "Suspect", "Damaged"}

Thresholds(e, g, n, ge, p, s, su) ==
    [excellent_max |-> e, good_max |-> g, normal_max |-> n, general_max |-> ge,
     poor_max |-> p, severe_max |-> s, suspect_threshold |-> su]

ZeroCounts == [c \in TimeCategoryType |-> 0]

\* set_default_categories: thresholds by device type, counters and aggregates zeroed
set_default_categories(device_type) ==
    LET th == CASE device_type = "NVME_SSD" -> Thresholds(1, 3, 8, 20, 50, 200, 8)
                [] device_type \in {"SATA_SSD", "UNKNOWN_SSD"} ->
                                              Thresholds(2, 8, 20, 50, 150, 500, 20)
                [] device_type = "HDD" -> Thresholds(8, 20, 40, 80, 200, 1000, 40)
                [] device_type = "USB_STORAGE" -> Thresholds(5, 15, 40, 100, 300, 1500, 40)
                [] OTHER -> Thresholds(5, 15, 35, 80, 200, 800, 35)
    IN  [excellent_max |-> th.excellent_max, good_max |-> th.good_max,
         normal_max |-> th.normal_max, general_max |-> th.general_max,
         poor_max |-> th.poor_max, severe_max |-> th.severe_max,
         suspect_threshold |-> th.suspect_threshold,
         counts |-> ZeroCounts, total_reads |-> 0, total_time_ms |-> 0,
         min_time_ms |-> 0, max_time_ms |-> 0]

initialize_time_categories(device_type) == set_default_categories(device_type)

(***************************************************************************)
(* Config overlay.  A config file is the sequence of its non-blank,        *)
(* non-comment lines; a line is a key and an integer value.                *)
(***************************************************************************)
ConfigKeys == {"excellent_max", "good_max", "normal_max", "general_max",
               "poor_max", "severe_max", "suspect_threshold"}

\* parse_config_line: TRUE when the line is accepted
parse_config_line_ok(line) ==
    /\ line.value >= 0
    /\ line.value <= 30000
    /\ line.key \in ConfigKeys

\* parse_config_line: the taxonomy after the line
parse_config_line(line, cats) ==
    IF parse_config_line_ok(line)
    THEN [cats EXCEPT ![line.key] = line.value]
    ELSE cats

RECURSIVE load_lines(_, _)
load_lines(lines, cats) ==
    IF lines = <<>> THEN cats
    ELSE load_lines(Tail(lines), parse_config_line(Head(lines), cats))

\* load_time_categories_config: return value (0 or -1)
load_time_categories_config_ret(file) ==
    IF ~file.readable THEN -1
    ELSE IF \E k \in 1..Len(file.lines) : parse_config_line_ok(file.lines[k])
         THEN 0 ELSE -1

\* load_time_categories_config: the taxonomy after the call
load_time_categories_config(cats, file) ==
    IF ~file.readable THEN cats ELSE load_lines(file.lines, cats)

\* the decimal digits of n >= 0, most significant first
RECURSIVE DecimalDigits(_)
DecimalDigits(n) ==
    IF n < 10 THEN <<n>> ELSE Append(DecimalDigits(n \div 10), n % 10)

\* fprintf "%d": a sign and decimal digits
printf_d(n) ==
    [negative |-> n < 0, digits |-> DecimalDigits(IF n < 0 THEN 0 - n ELSE n)]

\* the number written by decimal digits
RECURSIVE DecimalValue(_)
DecimalValue(digits) ==
    IF Len(digits) = 1 THEN digits[1]
    ELSE 10 * DecimalValue(SubSeq(digits, 1, Len(digits) - 1)) + digits[Len(digits)]

\* sscanf "%d": the integer written by text
sscanf_d(text) ==
    IF text.negative THEN 0 - DecimalValue(text.digits) ELSE DecimalValue(text.digits)

\* the line key=text of a config file as sscanf("%63[^=]=%d") splits it
ConfigLine(key, text) == [key |-> key, value |-> sscanf_d(text)]

\* save_time_categories_config: the file it writes, as load_time_categories_config
\* reads it back (comment lines and blank lines are skipped)
save_time_categories_config(cats) ==
    [readable |-> TRUE,
     lines |-> << ConfigLine("excellent_max", printf_d(cats.excellent_max)),
                  ConfigLine("good_max", printf_d(cats.good_max)),
                  ConfigLine("normal_max", printf_d(cats.normal_max)),
                  ConfigLine("general_max", printf_d(cats.general_max)),
                  ConfigLine("poor_max", printf_d(cats.poor_max)),
                  ConfigLine("severe_max", printf_d(cats.severe_max)),
                  ConfigLine("suspect_threshold", printf_d(cats.suspect_threshold)) >>]

\* validate_time_categories: 0 when accepted, -1 when rejected
validate_time_categories(cats) ==
    IF \/ cats.excellent_max >= cats.good_max
       \/ cats.good_max >= cats.normal_max
       \/ cats.normal_max >= cats.general_max
       \/ cats.general_max >= cats.poor_max
       \/ cats.poor_max >= cats.severe_max
    THEN -1
    ELSE IF cats.suspect_threshold < cats.normal_max THEN -1
    ELSE IF cats.excellent_max <= 0 \/ cats.suspect_threshold > 30000 THEN -1
    ELSE 0

(***************************************************************************)
(* Classification.                                                         *)
(***************************************************************************)
\* categorize_time_without_stats: the six-level classification
categorize_time_without_stats(cats, time_ms) ==
    IF time_ms <= cats.excellent_max THEN "Excellent"
    ELSE IF time_ms <= cats.good_max THEN "Good"
    ELSE IF time_ms <= cats.normal_max THEN "Normal"
    ELSE IF time_ms <= cats.general_max THEN "General"
    ELSE IF time_ms <= cats.poor_max THEN "Poor"
    ELSE IF time_ms <= cats.severe_max THEN "Severe"
    ELSE "Severe"

\* categorize_time with a latency equal to a threshold pushed to the next category
categorize_time_category_strict(cats, time_ms) ==
    IF time_ms >= cats.suspect_threshold THEN "Suspect"
    ELSE IF time_ms < cats.excellent_max THEN "Excellent"
    ELSE IF time_ms < cats.good_max THEN "Good"
    ELSE IF time_ms < cats.normal_max THEN "Normal"
    ELSE IF time_ms < cats.general_max THEN "General"
    ELSE IF time_ms < cats.poor_max THEN "Poor"
    ELSE IF time_ms < cats.severe_max THEN "Severe"
    ELSE "Severe"

\* categorize_time: the category it returns
categorize_time_category(cats, time_ms) ==
    IF time_ms >= cats.suspect_threshold THEN "Suspect"
    ELSE IF time_ms <= cats.excellent_max THEN "Excellent"
    ELSE IF time_ms <= cats.good_max THEN "Good"
    ELSE IF time_ms <= cats.normal_max THEN "Normal"
    ELSE IF time_ms <= cats.general_max THEN "General"
    ELSE IF time_ms <= cats.poor_max THEN "Poor"
    ELSE IF time_ms <= cats.severe_max THEN "Severe"
    ELSE "Severe"

\* categorize_time: the statistics update for a sample counted under category
update_statistics(cats, category, time_ms) ==
    LET n == cats.total_reads + 1
    IN  [cats EXCEPT
            !.counts[category] = @ + 1,
            !.total_reads = n,
            !.total_time_ms = @ + time_ms,
            !.min_time_ms = IF n = 1 THEN time_ms
                            ELSE IF time_ms < @ THEN time_ms ELSE @,
            !.max_time_ms = IF n = 1 THEN time_ms
                            ELSE IF time_ms > @ THEN time_ms ELSE @]

\* categorize_time: the taxonomy after the call
categorize_time(cats, time_ms) ==
    update_statistics(cats, categorize_time_category(cats, time_ms), time_ms)

should_retest_sector(cats, time_ms) == time_ms >= cats.suspect_threshold

\* categorize_time_with_retest: the category it returns
categorize_time_with_retest_category(cats, time_ms) ==
    IF ~should_retest_sector(cats, time_ms)
    THEN categorize_time_category(cats, time_ms)
    ELSE "Suspect"

\* categorize_time_with_retest: the taxonomy after the call
categorize_time_with_retest(cats, time_ms) ==
    IF ~should_retest_sector(cats, time_ms)
    THEN categorize_time(cats, time_ms)
    ELSE [cats EXCEPT !.counts["Suspect"] = @ + 1,
                      !.total_reads = @ + 1,
                      !.total_time_ms = @ + time_ms]

\* process_retest_result: the category it returns
process_retest_result_category(cats, result) ==
    IF result.final_category = "Damaged" THEN "Damaged"
    ELSE IF /\ result.average_time >= cats.suspect_threshold
            /\ result.average_time > cats.severe_max * 2
         THEN "Damaged"
         ELSE categorize_time_without_stats(cats, result.average_time)

\* process_retest_result: the taxonomy after the call
process_retest_result(cats, result) ==
    [cats EXCEPT !.counts[process_retest_result_category(cats, result)] = @ + 1]

(***************************************************************************)
(* IEEE-754 binary64 arithmetic, as far as print_time_statistics and       *)
(* scan_device use it: division of two integers, addition, comparison,     *)
(* the product of an integer and a double, conversion to unsigned long.    *)
(* A value is the sequence of its binary digits, FixLen of them; a double  *)
(* with its leading one at digit p has zeros after digit p + 52.  The      *)
(* ratios of print_time_statistics lie in [0, 4) and have a first digit of *)
(* weight 2; the sector positions of scan_device lie in [0, 2^(Scale+2))   *)
(* and have a first digit of weight 2^(Scale+1).                           *)
(***************************************************************************)
FixLen == 88

\* digits 1..Scale+2 of a sector position are its integer part
Scale == 20

\* the digits of f, held as a sequence
Digits(f) == SubSeq(f, 1, FixLen)

\* 2^k modulo d
RECURSIVE Pow2Mod(_, _)
Pow2Mod(k, d) ==
    IF k = 0 THEN 1 % d
    ELSE LET h == Pow2Mod(k \div 2, d)
         IN  (h * h * (IF k % 2 = 1 THEN 2 ELSE 1)) % d

\* what is left of a / d after j binary digits, as long division leaves it
DivRem(a, d, j) == (Pow2Mod(j, d) * (a % d)) % d

\* the binary digits of a / d for 0 <= a < 2 * d, the first of weight 1
LongDiv(a, d) ==
    Digits([j \in 1..FixLen |->
               IF j = 1 THEN (IF a >= d THEN 1 ELSE 0)
               ELSE (IF 2 * DivRem(a, d, j - 2) >= d THEN 1 ELSE 0)])

\* bits plus one unit at digit last
IncrementAt(bits, last) ==
    LET k == CHOOSE j \in 1..last :
                 bits[j] = 0 /\ \A m \in (j + 1)..last : bits[m] = 1
    IN  Digits([j \in 1..FixLen |-> IF j < k THEN bits[j] ELSE IF j = k THEN 1 ELSE 0])

\* round to nearest, ties to even, at 53 significant digits
RoundToDouble(bits, sticky) ==
    LET ones == { j \in 1..FixLen : bits[j] = 1 }
    IN  IF ones = {} THEN bits
        ELSE LET p    == CHOOSE j \in ones : \A m \in ones : j <= m
                 last == p + 52
             IN  IF last >= FixLen THEN bits
                 ELSE LET rest == sticky \/ \E j \in (last + 2)..FixLen : bits[j] = 1
                          up   == bits[last + 1] = 1 /\ (rest \/ bits[last] = 1)
                          cut  == Digits([j \in 1..FixLen |->
                                             IF j <= last THEN bits[j] ELSE 0])
                      IN  IF up THEN IncrementAt(cut, last) ELSE cut

\* (double)a / b for integers 0 <= a < 4 * b
DoubleDiv(a, b) ==
    RoundToDouble(LongDiv(a, 2 * b), DivRem(a, 2 * b, FixLen - 1) # 0)

\* the binary digits of a / d for 0 <= a < 2^(Scale+2) * d
LongDivAt(a, d) ==
    Digits([j \in 1..FixLen |->
               IF j <= Scale + 2 THEN ((a \div d) \div (2 ^ (Scale + 2 - j))) % 2
               ELSE (IF 2 * DivRem(a, d, j - Scale - 3) >= d THEN 1 ELSE 0)])

\* (double)a / d as a sector position; atof of the decimal a/d
PositionDiv(a, d) ==
    RoundToDouble(LongDivAt(a, d), DivRem(a, d, FixLen - Scale - 2) # 0)

\* the value of the k-th group of 11 digits of x
Group(x, k) ==
    LET b == 11 * (k - 1)
    IN  x[b + 1] * 1024 + x[b + 2] * 512 + x[b + 3] * 256 + x[b + 4] * 128
        + x[b + 5] * 64 + x[b + 6] * 32 + x[b + 7] * 16 + x[b + 8] * 8
        + x[b + 9] * 4 + x[b + 10] * 2 + x[b + 11]

\* the carry out of the groups after the k-th in x + y
RECURSIVE CarryInto(_, _, _)
CarryInto(x, y, k) ==
    IF 11 * k >= FixLen THEN 0
    ELSE (Group(x, k + 1) + Group(y, k + 1) + CarryInto(x, y, k + 1)) \div 2048

\* the exact sum of x and y, digit by digit
ExactSum(x, y) ==
    Digits([j \in 1..FixLen |->
               LET k == ((j - 1) \div 11) + 1
                   m == j - 11 * (k - 1)
               IN  ((Group(x, k) + Group(y, k) + CarryInto(x, y, k))
                       \div (2 ^ (11 - m))) % 2])

\* the carry out of the groups after the k-th in n * x
RECURSIVE CarryOfProduct(_, _, _)
CarryOfProduct(n, x, k) ==
    IF 11 * k >= FixLen THEN 0
    ELSE (n * Group(x, k + 1) + CarryOfProduct(n, x, k + 1)) \div 2048

\* the exact product of the integer n and x, digit by digit
ExactProduct(n, x) ==
    LET groups == [k \in 1..(FixLen \div 11) |->
                      (n * Group(x, k) + CarryOfProduct(n, x, k)) % 2048]
        held   == SubSeq(groups, 1, FixLen \div 11)
    IN  Digits([j \in 1..FixLen |->
                   LET k == ((j - 1) \div 11) + 1
                       m == j - 11 * (k - 1)
                   IN  (held[k] \div (2 ^ (11 - m))) % 2])

\* n * x of an integer and a double
DoubleTimes(n, x) == RoundToDouble(ExactProduct(n, x), FALSE)

\* (unsigned long)x of a sector position
ToUnsignedLong(x) == 2048 * Group(x, 1) + Group(x, 2)

\* x + y of two doubles
DoubleAdd(x, y) == RoundToDouble(ExactSum(x, y), FALSE)

\* x <= y
DoubleLeq(x, y) ==
    \/ x = y
    \/ \E j \in 1..FixLen : /\ x[j] < y[j]
                            /\ \A m \in 1..(j - 1) : x[m] = y[m]

\* print_time_statistics, lines 424-451: the health verdict and the
\* hardware-fault warning; the decimal literals are the doubles nearest to them
print_time_statistics(cats) ==
    IF cats.total_reads = 0
    THEN [printed |-> FALSE, verdict |-> "none", damaged_warning |-> FALSE]
    ELSE LET excellent_ratio == DoubleDiv(cats.counts["Excellent"], cats.total_reads)
             good_ratio      == DoubleDiv(cats.counts["Good"], cats.total_reads)
             normal_ratio    == DoubleDiv(cats.counts["Normal"], cats.total_reads)
             bad_ratio       == DoubleDiv(cats.counts["Poor"] + cats.counts["Severe"]
                                          + cats.counts["Suspect"] + cats.counts["Damaged"],
                                          cats.total_reads)
         IN  [printed |-> TRUE,
              verdict |->
                 IF DoubleLeq(DoubleDiv(8, 10), excellent_ratio) THEN "Excellent"
                 ELSE IF DoubleLeq(DoubleDiv(7, 10),
                                   DoubleAdd(excellent_ratio, good_ratio)) THEN "Good"
                 ELSE IF DoubleLeq(DoubleDiv(6, 10),
                                   DoubleAdd(DoubleAdd(excellent_ratio, good_ratio),
                                             normal_ratio)) THEN "Normal"
                 ELSE IF DoubleLeq(bad_ratio, DoubleDiv(1, 10)) THEN "Poor"
                 ELSE IF DoubleLeq(bad_ratio, DoubleDiv(3, 10)) THEN "Bad"
                 ELSE "Critical",
              damaged_warning |-> cats.counts["Damaged"] > 0]

RECURSIVE SumCounts(_, _)
SumCounts(counts, S) ==
    IF S = {} THEN 0
    ELSE LET c == CHOOSE x \in S : TRUE
         IN  counts[c] + SumCounts(counts, S \ {c})

\* sum of the eight per-category counters
CounterSum(cats) == SumCounts(cats.counts, TimeCategoryType)


(***************************************************************************)
(* Retest, retest.c                                                        *)
(***************************************************************************)
\* init_retest_config
init_retest_config ==
    [max_retests |-> 3, retest_interval_ms |-> 100, silent_mode |-> 1]

\* set_retest_config
set_retest_config(config, max_retests, interval_ms) ==
    [config EXCEPT
        !.max_retests = IF max_retests > 0 /\ max_retests <= 10 THEN max_retests ELSE @,
        !.retest_interval_ms = IF interval_ms >= 0 /\ interval_ms <= 5000 THEN interval_ms ELSE @]

\* perform_sector_retest: the guard of its attempt loop
retest_loop_continues(config, k, retest_count) ==
    k < config.max_retests /\ retest_count < 5

Swap(times, a, b) == [times EXCEPT ![a] = times[b], ![b] = times[a]]

RECURSIVE SortInner(_, _, _)
SortInner(times, a, b) ==
    IF b > Len(times) THEN times
    ELSE SortInner(IF times[a] > times[b] THEN Swap(times, a, b) ELSE times, a, b + 1)

RECURSIVE SortOuter(_, _)
SortOuter(times, a) ==
    IF a >= Len(times) THEN times
    ELSE SortOuter(SortInner(times, a, a + 1), a + 1)

RECURSIVE SumRange(_, _, _)
SumRange(times, a, b) ==
    IF a > b THEN 0 ELSE times[a] + SumRange(times, a + 1, b)

\* calculate_retest_average: mean of the sorted times without the first and the last
calculate_retest_average(retest_times) ==
    IF Len(retest_times) < 3 THEN 0
    ELSE LET times == SortOuter(retest_times, 1)
             sum   == SumRange(times, 2, Len(times) - 1)
             count == Len(times) - 2
         IN  IF count > 0 THEN sum \div count ELSE times[1]

\* perform_sector_retest: average_time after the attempt loop
retest_average_time(retest_times) ==
    IF Len(retest_times) >= 3 THEN calculate_retest_average(retest_times)
    ELSE IF Len(retest_times) > 0
         THEN SumRange(retest_times, 1, Len(retest_times)) \div Len(retest_times)
         ELSE 0

\* perform_sector_retest: final_category after the attempt loop
retest_final_category(retest_times) ==
    IF Len(retest_times) > 0 THEN "Normal" ELSE "Damaged"

\* integer division of C: the quotient is truncated toward zero (b > 0)
TruncDiv(a, b) == IF a >= 0 THEN a \div b ELSE 0 - ((0 - a) \div b)

\* retest_suspect_block, src/main.c lines 303-311: the scan for the minimum,
\* the maximum and the sum, which starts at the second result
RECURSIVE suspect_block_scan(_, _, _)
suspect_block_scan(results, idx, acc) ==
    IF idx > Len(results) THEN acc
    ELSE suspect_block_scan(results, idx + 1,
            [min_val |-> IF results[idx] < acc.min_val THEN results[idx] ELSE acc.min_val,
             max_val |-> IF results[idx] > acc.max_val THEN results[idx] ELSE acc.max_val,
             sum     |-> acc.sum + results[idx]])

\* retest_suspect_block, src/main.c lines 297-320: the value returned when the
\* reads of the attempts succeeded with the latencies results
retest_suspect_block(results) ==
    IF Len(results) < 3 THEN -1
    ELSE LET acc == suspect_block_scan(results, 2,
                        [min_val |-> results[1], max_val |-> results[1], sum |-> 0])
         IN  TruncDiv(acc.sum - acc.min_val - acc.max_val, Len(results) - 2)

(***************************************************************************)
(* Device facts used by the scan, device_info.c                            *)
(***************************************************************************)
is_ssd_device(info) ==
    \/ info.device_type \in {"SATA_SSD", "NVME_SSD", "UNKNOWN_SSD"}
    \/ (info.device_type = "USB_STORAGE" /\ info.is_rotational = 0)
    \/ info.is_rotational = 0

is_hdd_device(info) ==
    info.device_type = "HDD" \/ info.is_rotational = 1

is_nvme_device(info) ==
    info.device_type = "NVME_SSD" \/ info.bus_type = "NVME"

get_recommended_suspect_threshold(info) ==
    IF is_ssd_device(info)
    THEN (IF is_nvme_device(info) THEN 10 ELSE 20)
    ELSE IF is_hdd_device(info)
         THEN (IF info.rotation_rate_rpm >= 10000 THEN 60
               ELSE IF info.rotation_rate_rpm >= 7200 \/ info.rotation_rate_rpm = 0 THEN 100
               ELSE 150)
         ELSE IF info.device_type = "USB_STORAGE" THEN 200
              ELSE 100

(***************************************************************************)
(* collect_device_info, device_info.c, and the collectors it calls.  The   *)
(* environment env is what the system reports about the device node:       *)
(*   name            the prefix of the device name (nvme, sd, hd, ...)     *)
(*   rotational      /sys/block/<dev>/queue/rotational, -1 when unreadable *)
(*   bus             the bus udevadm reports, "UNKNOWN" when it has none   *)
(*   subsystem_nvme  udevadm reports SUBSYSTEM=nvme                        *)
(*   smartctl_rpm    the Rotation Rate of smartctl, 0 when it has none     *)
(*   capacity_gb     the capacity computed from sysfs, 0 when unknown      *)
(*   model           the model string: "Unknown", or one holding the       *)
(*                   keyword ssd, or one holding the keyword hdd           *)
(***************************************************************************)
\* initialize_device_info, lines 25-55
initialize_device_info ==
    [main_dev_name |-> "", device_type |-> "UNKNOWN", bus_type |-> "UNKNOWN",
     is_rotational |-> -1, rpm |-> 0, rotation_rate_rpm |-> 0,
     capacity_gb |-> 0, model |-> "Unknown"]

\* generic_info.c, collect_sysfs_info: capacity, rotational flag, model
collect_sysfs_info(info, env) ==
    [info EXCEPT !.capacity_gb = IF env.capacity_gb > 0 THEN env.capacity_gb ELSE @,
                 !.is_rotational = IF env.rotational # -1 THEN env.rotational ELSE @,
                 !.model = IF @ = "Unknown" THEN env.model ELSE @]

\* generic_info.c, collect_udevadm_info: bus type and the nvme subsystem
collect_udevadm_info(info, env) ==
    LET bus == [info EXCEPT !.bus_type = IF env.bus # "UNKNOWN" THEN env.bus ELSE @]
    IN  IF env.subsystem_nvme
        THEN [bus EXCEPT !.bus_type = "NVME", !.device_type = "NVME_SSD",
                         !.is_rotational = 0]
        ELSE bus

\* generic_info.c, collect_generic_info
collect_generic_info(info, env) ==
    collect_udevadm_info(
        collect_sysfs_info([info EXCEPT !.main_dev_name = env.name], env), env)

\* generic_info.c, collect_smartctl_info: the rotation rate of a rotating device
collect_smartctl_info(info, env) ==
    IF info.is_rotational = 1 /\ info.rotation_rate_rpm = 0 /\ env.smartctl_rpm > 0
    THEN [info EXCEPT !.rotation_rate_rpm = env.smartctl_rpm]
    ELSE info

\* device_info.c, determine_device_type_from_name
determine_device_type_from_name(info) ==
    CASE info.main_dev_name = "nvme" ->
            [info EXCEPT !.bus_type = "NVME", !.device_type = "NVME_SSD",
                         !.is_rotational = 0]
      [] info.main_dev_name = "hd" -> [info EXCEPT !.bus_type = "PATA"]
      [] info.main_dev_name = "mmcblk" ->
            [info EXCEPT !.bus_type = "MMC", !.device_type = "UNKNOWN_SSD",
                         !.is_rotational = 0]
      [] info.main_dev_name = "vd" -> [info EXCEPT !.bus_type = "VIRTIO"]
      [] OTHER -> info

\* nvme_info.c, collect_nvme_info: what finalize_nvme_info leaves
collect_nvme_info(info, env) ==
    [info EXCEPT !.bus_type = "NVME", !.device_type = "NVME_SSD",
                 !.is_rotational = 0, !.rotation_rate_rpm = 0]

\* sata_info.c, determine_bus_type_from_udev
determine_bus_type_from_udev(info) ==
    IF info.bus_type # "UNKNOWN" THEN info
    ELSE IF info.main_dev_name = "sd" THEN [info EXCEPT !.bus_type = "SATA"]
    ELSE IF info.main_dev_name = "hd" THEN [info EXCEPT !.bus_type = "PATA"]
    ELSE info

\* sata_info.c, classify_sata_device
classify_sata_device(info) ==
    IF info.is_rotational = 0
    THEN [info EXCEPT !.device_type = IF info.bus_type \in {"SATA", "ATA"}
                                      THEN "SATA_SSD" ELSE "UNKNOWN_SSD"]
    ELSE IF info.is_rotational = 1 THEN [info EXCEPT !.device_type = "HDD"]
    ELSE IF info.rotation_rate_rpm > 0
         THEN [info EXCEPT !.device_type = "HDD", !.is_rotational = 1]
    ELSE IF info.model = "ssd"
         THEN [info EXCEPT !.device_type = "SATA_SSD", !.is_rotational = 0]
    ELSE [info EXCEPT !.device_type = "UNKNOWN"]

\* sata_info.c, finalize_sata_info
finalize_sata_info(info) ==
    LET bus == IF info.bus_type # "UNKNOWN" THEN info
               ELSE IF info.main_dev_name = "sd" THEN [info EXCEPT !.bus_type = "SATA"]
               ELSE IF info.main_dev_name = "hd" THEN [info EXCEPT !.bus_type = "PATA"]
               ELSE info
        hdd == IF bus.device_type = "HDD" /\ bus.rotation_rate_rpm = 0
               THEN [bus EXCEPT !.rotation_rate_rpm =
                        IF bus.capacity_gb > 0 /\ bus.capacity_gb < 1000
                        THEN 5400 ELSE 7200]
               ELSE bus
    IN  IF hdd.device_type \in {"SATA_SSD", "UNKNOWN_SSD"}
        THEN [hdd EXCEPT !.is_rotational = 0, !.rotation_rate_rpm = 0]
        ELSE hdd

\* sata_info.c, collect_sata_info
collect_sata_info(info, env) ==
    finalize_sata_info(
        classify_sata_device(
            collect_smartctl_info(
                determine_bus_type_from_udev(collect_generic_info(info, env)), env)))

\* usb_info.c, detect_usb_device_type
detect_usb_device_type(info) ==
    IF info.is_rotational = 1 THEN [info EXCEPT !.device_type = "HDD"]
    ELSE IF info.is_rotational = 0 THEN [info EXCEPT !.device_type = "USB_STORAGE"]
    ELSE IF info.capacity_gb > 0
         THEN IF info.capacity_gb >= 500
              THEN [info EXCEPT !.device_type = "HDD", !.is_rotational = 1]
              ELSE [info EXCEPT !.device_type = "USB_STORAGE", !.is_rotational = 0]
    ELSE IF info.model = "hdd"
         THEN [info EXCEPT !.device_type = "HDD", !.is_rotational = 1]
    ELSE [info EXCEPT !.device_type = "USB_STORAGE", !.is_rotational = 0]

\* usb_info.c, finalize_usb_info
finalize_usb_info(info) ==
    LET usb == [info EXCEPT !.bus_type = "USB"]
    IN  IF usb.device_type = "HDD" /\ usb.rotation_rate_rpm = 0
        THEN [usb EXCEPT !.rotation_rate_rpm = 5400]
        ELSE IF usb.device_type = "USB_STORAGE"
             THEN [usb EXCEPT !.rotation_rate_rpm = 0, !.is_rotational = 0]
             ELSE usb

\* usb_info.c, collect_usb_info
collect_usb_info(info, env) ==
    finalize_usb_info(
        collect_smartctl_info(
            detect_usb_device_type(
                [collect_generic_info(info, env) EXCEPT !.bus_type = "USB"]), env))

\* the classes finalize_device_info holds to be without rotation
SolidStateTypes == {"NVME_SSD", "SATA_SSD", "UNKNOWN_SSD", "USB_STORAGE"}

\* device_info.c, finalize_device_info, lines 276-291: the class of a device
\* the collectors left without one
FillDeviceType(info) ==
    IF info.device_type # "UNKNOWN" THEN info
    ELSE IF info.bus_type = "NVME"
         THEN [info EXCEPT !.device_type = "NVME_SSD", !.is_rotational = 0]
    ELSE IF info.is_rotational = 0
         THEN [info EXCEPT !.device_type =
                  IF info.bus_type \in {"SATA", "ATA"} THEN "SATA_SSD"
                  ELSE IF info.bus_type = "USB" THEN "USB_STORAGE"
                  ELSE "UNKNOWN_SSD"]
    ELSE IF info.is_rotational = 1 THEN [info EXCEPT !.device_type = "HDD"]
    ELSE info

\* a finalization that fills in the class and does not touch the rotation fields
finalize_device_info_class_only(info) ==
    IF info.device_type # "UNKNOWN" THEN info
    ELSE IF info.bus_type = "NVME" THEN [info EXCEPT !.device_type = "NVME_SSD"]
    ELSE FillDeviceType(info)

\* device_info.c, finalize_device_info, lines 272-311
finalize_device_info(info) ==
    LET typed == FillDeviceType(info)
    IN  IF typed.device_type \in SolidStateTypes
        THEN [typed EXCEPT !.is_rotational = 0, !.rpm = 0, !.rotation_rate_rpm = 0]
        ELSE IF typed.device_type = "HDD"
             THEN [typed EXCEPT
                     !.is_rotational = 1,
                     !.rotation_rate_rpm =
                         IF @ = 0 THEN (IF typed.rpm = 0 THEN 7200 ELSE typed.rpm) ELSE @,
                     !.rpm =
                         IF @ = 0 THEN (IF typed.rotation_rate_rpm = 0 THEN 7200
                                        ELSE typed.rotation_rate_rpm) ELSE @]
             ELSE typed

\* device_info.c, collect_device_info, lines 66-172: the descriptor it leaves
collect_device_info(env) ==
    LET named == determine_device_type_from_name(
                     collect_generic_info(initialize_device_info, env))
        collected ==
            CASE named.main_dev_name = "nvme" -> collect_nvme_info(named, env)
              [] named.main_dev_name = "sd" -> collect_sata_info(named, env)
              [] named.main_dev_name = "hd" ->
                    collect_sata_info([named EXCEPT !.bus_type = "PATA"], env)
              [] named.main_dev_name = "mmcblk" ->
                    [named EXCEPT !.bus_type = "MMC", !.device_type = "UNKNOWN_SSD",
                                  !.is_rotational = 0]
              [] named.main_dev_name = "vd" ->
                    [named EXCEPT !.bus_type = "VIRTIO", !.device_type = "UNKNOWN"]
              [] OTHER -> IF named.bus_type = "USB" THEN collect_usb_info(named, env)
                          ELSE named
    IN  finalize_device_info(collected)

\* scan_options.h
BLOCK_SIZE_DEFAULT == 4096
DEFAULT_SUSPECT_THRESHOLD == 100
DEFAULT_SUSPECT_RETRIES == 10
DEFAULT_SUSPECT_INTERVAL == 100


(***************************************************************************)
(* State of one scan_device call (scanner.c) and of the taxonomy driver.   *)
(***************************************************************************)
VARIABLES
    opts,               \* ScanOptions, as parse_arguments left them
    dev,                \* the device: what the probes and the ioctls report
    pc,                 \* position in scan_device
    ret,                \* return value of scan_device, NotReturned until it returns
    g_scan_interrupted, \* the flag written by signal_handler
    geometry,           \* DeviceGeometry
    suspect_threshold,  \* local of scan_device, lines 595-600
    categories,         \* TimeCategories
    start_sector, end_sector, sample_count,
    i,                  \* loop index of the main scan loop
    current_sector,
    log_file,           \* "NULL", "open" or "closed"
    res,                \* acquisitions and releases of each resource
    retest,             \* locals of perform_sector_retest
    sample,             \* the sample last processed by the loop body
    progress,           \* ScanProgress
    log,                \* records written to the log file
    reads,              \* sectors handed to perform_sector_read, in order
    summary,            \* what print_final_summary printed
    call,               \* SpecTax, SpecPure: the operation last applied
    process             \* how main returned: from which step, with which status

vars == <<opts, dev, pc, ret, g_scan_interrupted, geometry, suspect_threshold,
          categories, start_sector, end_sector, sample_count, i, current_sector,
          log_file, res, retest, sample, progress, log, reads, summary, call,
          process>>

Resources == {"geometry_fd", "fd", "buffer", "log", "retest_fd"}

(***************************************************************************)
(* Inputs.                                                                 *)
(***************************************************************************)
\* latencies (ms) a timed read of the scan may report
Latencies == {1, 8, 25}
\* latencies (ms) a retest read may report
RetestLatencies == {2, 1000}

NvmeDevice ==
    [device_type |-> "NVME_SSD", bus_type |-> "NVME", is_rotational |-> 0,
     rotation_rate_rpm |-> 0, sector_size |-> 512, total_sectors |-> TotalSectors]
HddDevice ==
    [device_type |-> "HDD", bus_type |-> "SATA", is_rotational |-> 1,
     rotation_rate_rpm |-> 7200, sector_size |-> 512, total_sectors |-> TotalSectors]
Devices == {NvmeDevice, HddDevice}
\* an NVMe device formatted with logical blocks of 4096 bytes; total_sectors is
\* what BLKGETSIZE reports, the capacity in units of 512 bytes
Nvme4kDevice ==
    [NvmeDevice EXCEPT !.sector_size = 4096, !.total_sectors = 8 * TotalSectors]

NoConfigFile == [readable |-> FALSE, lines |-> <<>>]
\* a valid overlay that moves the suspect threshold above every other threshold
HighSuspectConfig ==
    [readable |-> TRUE, lines |-> << [key |-> "suspect_threshold", value |-> 30000] >>]
\* an overlay that fails validation
BadOrderConfig ==
    [readable |-> TRUE, lines |-> << [key |-> "excellent_max", value |-> 0] >>]
ConfigChoices ==
    { [has_config |-> FALSE, config_file |-> NoConfigFile],
      [has_config |-> TRUE,  config_file |-> HighSuspectConfig],
      [has_config |-> TRUE,  config_file |-> BadOrderConfig] }

\* sample_ratio as a fraction num/den, with 0 < num/den <= 1
FullScan == [num |-> 1, den |-> 1]
HalfScan == [num |-> 1, den |-> 2]

\* the options parse_arguments leaves when only the positions are given
DefaultOptions(s, e) ==
    [block_size |-> BLOCK_SIZE_DEFAULT, has_log |-> FALSE, log_threshold |-> 0,
     has_config |-> FALSE, config_file |-> NoConfigFile,
     sample_ratio |-> FullScan, random_sampling |-> FALSE, wait_factor |-> 0,
     suspect_threshold |-> DEFAULT_SUSPECT_THRESHOLD,
     suspect_retries |-> DEFAULT_SUSPECT_RETRIES,
     suspect_interval |-> DEFAULT_SUSPECT_INTERVAL,
     start |-> s, end |-> e]

\* scans that vary the taxonomy, the thresholds, the retries and the log
ClassifyScenarios ==
    { << [DefaultOptions(0, e) EXCEPT
             !.has_log = TRUE,
             !.has_config = cf.has_config, !.config_file = cf.config_file,
             !.suspect_threshold = st, !.suspect_retries = sr], d >> :
         e \in {1, TotalSectors - 1}, cf \in ConfigChoices,
         st \in {DEFAULT_SUSPECT_THRESHOLD, 8}, sr \in {0, 3}, d \in Devices }

\* scans that vary the range and the sampling mode
ScheduleScenarios ==
    { << [DefaultOptions(s, e) EXCEPT
             !.sample_ratio = ra, !.random_sampling = rs], NvmeDevice >> :
         s \in 0..1, e \in 1..(TotalSectors + 1),
         ra \in {FullScan, HalfScan}, rs \in BOOLEAN }

\* a config file that cannot be opened
UnreadableConfig == [readable |-> FALSE, lines |-> <<>>]
\* a config file without a valid key=value item
NoValidItemConfig ==
    [readable |-> TRUE, lines |-> << [key |-> "bogus_key", value |-> 5],
                                     [key |-> "good_max", value |-> 30001] >>]

\* scans that are given a config file that cannot be loaded
ConfigScenarios ==
    { << [DefaultOptions(0, 1) EXCEPT !.has_config = TRUE, !.config_file = cf],
         NvmeDevice >> : cf \in {UnreadableConfig, NoValidItemConfig} }

\* scans that log only the samples at or above a latency (--log-threshold)
LogThresholdScenarios ==
    { << [DefaultOptions(0, 1) EXCEPT !.has_log = TRUE, !.log_threshold = 20], d >> :
         d \in Devices }

\* scans that pause after each sample (--wait)
WaitScenarios ==
    { << [DefaultOptions(0, 1) EXCEPT !.wait_factor = 50], d >> : d \in Devices }

\* scans given --suspect 0
SuspectZeroScenarios ==
    { << [DefaultOptions(0, 1) EXCEPT !.suspect_threshold = 0], d >> : d \in Devices }

\* scans of a device whose logical block size is not 512
BlockSizeScenarios ==
    { << DefaultOptions(1, 2), Nvme4kDevice >>,
      << DefaultOptions(8 * TotalSectors - 1, 8 * TotalSectors), Nvme4kDevice >> }

Scenarios ==
    ClassifyScenarios \cup ScheduleScenarios \cup ConfigScenarios
        \cup LogThresholdScenarios \cup WaitScenarios \cup SuspectZeroScenarios
        \cup BlockSizeScenarios

\* the range 0..1000000 sampled at ratio 0.01
PercentOfMillion == [start |-> 0, end |-> 1000000, ratio |-> [num |-> 1, den |-> 100]]

\* ranges and ratios of uniform sampling scans
UniformScheduleInputs ==
    { [start |-> s, end |-> s + n, ratio |-> ra] :
        s \in {0, 7}, n \in {3, 10, 30},
        ra \in {HalfScan, [num |-> 3, den |-> 4], [num |-> 1, den |-> 100]} }
    \cup { [start |-> 0, end |-> 100, ratio |-> [num |-> 29, den |-> 100]],
           PercentOfMillion }

\* the length and the ratio of every sampling scan of the specifications
SamplingScans ==
    { <<in.end - in.start, in.ratio>> : in \in UniformScheduleInputs }
    \cup { <<sc[1].end - sc[1].start, sc[1].sample_ratio>> :
             sc \in { x \in Scenarios : /\ x[1].start < x[1].end
                                         /\ x[1].sample_ratio.num < x[1].sample_ratio.den } }

\* the value of ret while scan_device has not returned
NotReturned == -99

NoRetest == [k |-> 0, retest_times |-> <<>>, reads |-> 0, config |-> init_retest_config]

\* the RetestResult of a sample for which perform_sector_retest did not run
NoRetestResult ==
    [returned |-> FALSE, ret |-> 0, final_category |-> "Damaged", retest_count |-> 0,
     retest_times |-> <<>>, average_time |-> 0, reads |-> 0, io_error |-> FALSE]

NoSample ==
    [complete |-> FALSE, sector |-> 0, first_time |-> 0, first_category |-> "Excellent",
     retest_called |-> FALSE, attempts |-> 0, retest_time |-> -1, read_time |-> 0,
     category |-> "Excellent", counts_before |-> ZeroCounts, reads_before |-> 0,
     retest_result |-> NoRetestResult, usleep |-> 0, offset |-> 0,
     retest_offset |-> -1]

NoCall ==
    [op |-> "none", time_ms |-> 0, category |-> "Excellent", count |-> 0,
     before |-> set_default_categories("UNKNOWN")]

InitCommon ==
    /\ ret = NotReturned
    /\ g_scan_interrupted = 0
    /\ geometry = [sector_size |-> 0, total_sectors |-> 0]
    /\ suspect_threshold = 0
    /\ start_sector = 0
    /\ end_sector = 0
    /\ sample_count = 0
    /\ i = 0
    /\ current_sector = 0
    /\ log_file = "NULL"
    /\ res = [acq |-> [r \in Resources |-> 0], rel |-> [r \in Resources |-> 0]]
    /\ retest = NoRetest
    /\ sample = NoSample
    /\ progress = [sectors_scanned |-> 0, total_sectors |-> 0,
                   last_read_time |-> 0, last_category |-> "Excellent"]
    /\ log = <<>>
    /\ reads = <<>>
    /\ summary = [printed |-> FALSE, interrupted |-> FALSE, sectors_scanned |-> 0,
                  items |-> {}]
    /\ call = NoCall
    /\ process = [exited |-> FALSE, at |-> "main", status |-> 0]

Init ==
    /\ \E sc \in Scenarios : opts = sc[1] /\ dev = sc[2]
    /\ pc = "entry"
    /\ categories = set_default_categories("UNKNOWN")
    /\ InitCommon


(***************************************************************************)
(* scan_device, lines 554-642: everything before the device is opened.     *)
(***************************************************************************)
\* parse_positions: 0 when the range is accepted, -1 otherwise
parse_positions(o, total_sectors) ==
    IF total_sectors = 0 THEN -1
    ELSE IF o.start >= total_sectors THEN -1
    ELSE IF o.end > total_sectors THEN -1
    ELSE IF o.start >= o.end THEN -1
    ELSE 0

IsSampling(o) == o.sample_ratio.num < o.sample_ratio.den

\* parse_arguments, line 300: the double nearest to the decimal ratio
atof(ratio) == PositionDiv(ratio.num, ratio.den)

\* scan_device, line 624: (unsigned long)(total_sectors * sample_ratio) of
\* each sampling scan
SampleProduct ==
    [sc \in SamplingScans |-> ToUnsignedLong(DoubleTimes(sc[1], atof(sc[2])))]

\* scan_device, lines 619-639: number of samples of the scan
SampleCount(o, total) ==
    IF IsSampling(o)
    THEN LET n == SampleProduct[<<total, o.sample_ratio>>]
         IN  IF n = 0 THEN 1 ELSE n
    ELSE total

\* scan_device, line 628: the stride of a sampling scan
step_size(total, count) == PositionDiv(total, count)

\* scan_device, lines 690-691 and 705: (unsigned long)(i * step_size) of
\* each iteration of each sampling scan
UniformOffset ==
    [sc \in SamplingScans |->
        LET count == IF SampleProduct[sc] = 0 THEN 1 ELSE SampleProduct[sc]
            step  == step_size(sc[1], count)
        IN  [idx \in 0..(count - 1) |-> ToUnsignedLong(DoubleTimes(idx, step))]]

\* scan_device, lines 594-600
ChooseSuspectThreshold(o, info) ==
    IF o.suspect_threshold = DEFAULT_SUSPECT_THRESHOLD
    THEN get_recommended_suspect_threshold(info)
    ELSE o.suspect_threshold

\* scan_device, lines 602-611: the taxonomy handed to validation
SetupCategories(o, info) ==
    IF o.has_config
    THEN load_time_categories_config(initialize_time_categories(info.device_type),
                                     o.config_file)
    ELSE initialize_time_categories(info.device_type)

\* get_device_geometry: the descriptor it opens is closed before it returns
GeometryProbe ==
    [res EXCEPT !.acq["geometry_fd"] = @ + 1, !.rel["geometry_fd"] = @ + 1]

\* get_device_geometry fails: the open fails, or the BLKGETSIZE ioctl fails
GeometryFails ==
    /\ pc = "entry"
    /\ \/ res' = res
       \/ res' = GeometryProbe
    /\ ret' = -1
    /\ pc' = "done"
    /\ UNCHANGED <<opts, dev, g_scan_interrupted, geometry, suspect_threshold,
                   categories, start_sector, end_sector, sample_count, i,
                   current_sector, log_file, retest, sample, progress, log, reads,
                   summary, call, process>>

ScanSetup ==
    /\ pc = "entry"
    /\ geometry' = [sector_size |-> dev.sector_size, total_sectors |-> dev.total_sectors]
    /\ res' = GeometryProbe
    /\ IF parse_positions(opts, dev.total_sectors) # 0
       THEN /\ ret' = -1
            /\ pc' = "done"
            /\ UNCHANGED <<suspect_threshold, categories, start_sector, end_sector,
                           sample_count, progress>>
       ELSE /\ start_sector' = opts.start
            /\ end_sector' = opts.end
            /\ IF opts.block_size % dev.sector_size # 0
               THEN /\ ret' = -1
                    /\ pc' = "done"
                    /\ UNCHANGED <<suspect_threshold, categories, sample_count, progress>>
               ELSE /\ suspect_threshold' = ChooseSuspectThreshold(opts, dev)
                    /\ categories' = SetupCategories(opts, dev)
                    /\ IF validate_time_categories(SetupCategories(opts, dev)) # 0
                       THEN /\ ret' = -1
                            /\ pc' = "done"
                            /\ UNCHANGED <<sample_count, progress>>
                       ELSE /\ sample_count' = SampleCount(opts, opts.end - opts.start)
                            /\ progress' = [progress EXCEPT !.total_sectors =
                                               SampleCount(opts, opts.end - opts.start)]
                            /\ ret' = ret
                            /\ pc' = "open_device"
    /\ UNCHANGED <<opts, dev, g_scan_interrupted, i, current_sector, log_file,
                   retest, sample, log, reads, summary, call, process>>

Acquire(r) == [res EXCEPT !.acq[r] = @ + 1]
Release(r) == [res EXCEPT !.rel[r] = @ + 1]

\* scan_device, lines 644-648: open_device_for_scan
OpenDevice ==
    /\ pc = "open_device"
    /\ \/ /\ res' = Acquire("fd")
          /\ pc' = "open_log"
          /\ ret' = ret
       \/ /\ ret' = -1
          /\ pc' = "done"
          /\ res' = res
    /\ UNCHANGED <<opts, dev, g_scan_interrupted, geometry, suspect_threshold,
                   categories, start_sector, end_sector, sample_count, i,
                   current_sector, log_file, retest, sample, progress, log, reads,
                   summary, call, process>>

\* scan_device, lines 650-661: fopen of the log file; a failure is only a warning
OpenLog ==
    /\ pc = "open_log"
    /\ IF opts.has_log
       THEN \/ /\ log_file' = "open"
               /\ res' = Acquire("log")
            \/ /\ log_file' = "NULL"
               /\ res' = res
       ELSE /\ log_file' = "NULL"
            /\ res' = res
    /\ pc' = "alloc"
    /\ UNCHANGED <<opts, dev, ret, g_scan_interrupted, geometry, suspect_threshold,
                   categories, start_sector, end_sector, sample_count, i,
                   current_sector, retest, sample, progress, log, reads, summary, call, process>>

\* the allocation-failure path without the fclose of the log file
AllocFailureCleanupLeaksLog ==
    [res EXCEPT !.rel["fd"] = @ + 1]

\* scan_device, lines 663-670, on failure: close(fd); if (log_file) fclose(log_file)
AllocFailureCleanup ==
    [res EXCEPT !.rel["fd"] = @ + 1,
                !.rel["log"] = IF log_file = "open" THEN @ + 1 ELSE @]

\* scan_device, lines 663-683: aligned_alloc of the read buffer
AllocBuffer ==
    /\ pc = "alloc"
    /\ \/ /\ res' = Acquire("buffer")
          /\ pc' = "loop"
          /\ UNCHANGED <<ret, log_file>>
       \/ /\ res' = AllocFailureCleanup
          /\ log_file' = IF log_file = "open" THEN "closed" ELSE log_file
          /\ ret' = -1
          /\ pc' = "done"
    /\ UNCHANGED <<opts, dev, g_scan_interrupted, geometry, suspect_threshold,
                   categories, start_sector, end_sector, sample_count, i,
                   current_sector, retest, sample, progress, log, reads, summary, call, process>>


(***************************************************************************)
(* scan_device, lines 685-755: the main loop.                              *)
(***************************************************************************)
\* (unsigned long)(base_position + random_offset) for rand()/RAND_MAX = k/RandDen.
\* The value converted is total * (5*RandDen*idx + 4*k - 2*RandDen) / (5*RandDen*count).
\* A value in (-1, 0) converts to 0.  A value <= -1 is outside the range of
\* unsigned long and the conversion is undefined: the result is any unsigned
\* long.  The results modelled are the wrapped value 2^64 - m, written as the
\* negative integer -m, and every value from 0 (saturation) up to the length
\* of the range, which stands for all larger ones.
RandomConversions(total, count, idx, k) ==
    LET num == total * (5 * RandDen * idx + 4 * k - 2 * RandDen)
        den == 5 * RandDen * count
    IN  IF num >= 0 THEN { num \div den }
        ELSE LET m == (0 - num) \div den
             IN  IF m = 0 THEN {0} ELSE {0 - m} \cup (0..total)

\* the clamp without its upper bound
ClampSectorNoUpperBound(raw, start, end) ==
    IF raw >= 0 /\ raw < start THEN start ELSE raw

\* lines 699-701; raw < 0 stands for the wrapped sum 2^64 + raw, which is
\* above every sector of the device
ClampSector(raw, start, end) ==
    IF raw >= 0 /\ raw < start THEN start
    ELSE IF raw < 0 \/ raw >= end THEN end - 1
    ELSE raw

\* lines 687-709: the sectors the iteration idx may read
ScheduledSectors(o, start, end, count, idx) ==
    IF IsSampling(o)
    THEN IF o.random_sampling
         THEN { ClampSector(start + c, start, end) :
                  c \in UNION { RandomConversions(end - start, count, idx, k) :
                                  k \in 0..RandDen } }
         ELSE { start + UniformOffset[<<end - start, o.sample_ratio>>][idx] }
    ELSE { start + idx }

\* the loop guard without the test of the cancellation flag
LoopGuardIgnoresFlag(idx, count, interrupted) == idx < count

\* line 686: the loop guard
LoopGuard(idx, count, interrupted) == idx < count /\ interrupted = 0

LoopTest ==
    /\ pc = "loop"
    /\ IF LoopGuard(i, sample_count, g_scan_interrupted)
       THEN /\ current_sector' \in
                  ScheduledSectors(opts, start_sector, end_sector, sample_count, i)
            /\ pc' = "read"
       ELSE /\ pc' = "cleanup"
            /\ UNCHANGED current_sector
    /\ UNCHANGED <<opts, dev, ret, g_scan_interrupted, geometry, suspect_threshold,
                   categories, start_sector, end_sector, sample_count, i, log_file,
                   res, retest, sample, progress, log, reads, summary, call, process>>

LogRecord(sector, time_ms, category, notes) ==
    [sector |-> sector, time_ms |-> time_ms, category |-> category, notes |-> notes]

\* log_sector_result
log_sector_result(lg, sector, time_ms, category, notes) ==
    IF log_file = "open" THEN Append(lg, LogRecord(sector, time_ms, category, notes))
    ELSE lg

\* lines 731-734
ShouldLog(o, read_time) == o.log_threshold = 0 \/ read_time >= o.log_threshold

\* update_progress, lines 180-183
update_progress(p, read_time, category) ==
    [p EXCEPT !.sectors_scanned = @ + 1,
              !.last_read_time = read_time,
              !.last_category = category]

\* line 722: the test that sends a successful read to handle_suspect_block
NeedsRetest(read_time, threshold) == read_time >= threshold

\* lines 751-754: the argument of usleep after a sample, 0 when it is not called
WaitDelay(o, read_time) ==
    IF o.wait_factor > 0 /\ read_time > 0
    THEN read_time * o.wait_factor * 1000
    ELSE 0

\* lines 731-755 for a successful read: log, progress, next iteration
FinishSample(smp, read_time, category, cats, lg) ==
    /\ categories' = cats
    /\ log' = IF ShouldLog(opts, read_time)
              THEN log_sector_result(lg, current_sector, read_time, category, "")
              ELSE lg
    /\ progress' = update_progress(progress, read_time, category)
    /\ sample' = [smp EXCEPT !.complete = TRUE, !.read_time = read_time,
                             !.category = category,
                             !.usleep = WaitDelay(opts, read_time)]
    /\ retest' = NoRetest
    /\ i' = i + 1
    /\ pc' = "loop"

\* lines 735-749 for a failed read
FailedRead(smp) ==
    /\ categories' = categorize_time(categories, 30000)
    /\ log' = log_sector_result(log, current_sector, -1, "Damaged", "read_failed")
    /\ progress' = update_progress(progress, -1, "Damaged")
    /\ sample' = [smp EXCEPT !.complete = TRUE, !.read_time = -1,
                             !.category = "Damaged",
                             !.usleep = WaitDelay(opts, -1)]
    /\ retest' = NoRetest
    /\ i' = i + 1
    /\ pc' = "loop"

\* perform_sector_read, line 415: the byte offset of the read of a sector
ReadOffset(sector, geo) == sector * geo.sector_size

\* perform_sector_retest, line 92: the byte offset of the retest reads of a sector
RetestOffset(sector) == sector * 512

NewSample(sector, first_time, first_category) ==
    [complete |-> FALSE, sector |-> sector, first_time |-> first_time,
     first_category |-> first_category, retest_called |-> FALSE, attempts |-> 0,
     retest_time |-> -1, read_time |-> first_time, category |-> first_category,
     counts_before |-> categories.counts, reads_before |-> categories.total_reads,
     retest_result |-> NoRetestResult, usleep |-> 0,
     offset |-> ReadOffset(sector, geometry), retest_offset |-> -1]

\* lines 711-729: perform_sector_read and the classification of its result
ReadSector ==
    /\ pc = "read"
    /\ reads' = Append(reads, current_sector)
    /\ \E t \in Latencies \cup {-1} :
         IF t < 0
         THEN /\ FailedRead(NewSample(current_sector, -1, "Damaged"))
              /\ res' = res
         ELSE LET c0   == categorize_time_category(categories, t)
                  cats == categorize_time(categories, t)
                  smp  == NewSample(current_sector, t, c0)
              IN  IF NeedsRetest(t, suspect_threshold) /\ opts.suspect_retries > 0
                  THEN /\ categories' = cats
                       /\ sample' = smp
                       /\ retest' = [k |-> 0, retest_times |-> <<>>, reads |-> 0,
                                     config |-> set_retest_config(init_retest_config,
                                                    opts.suspect_retries,
                                                    opts.suspect_interval)]
                       /\ pc' = "retest_open"
                       /\ UNCHANGED <<log, progress, i, res>>
                  ELSE /\ FinishSample(smp, t, c0, cats, log)
                       /\ res' = res
    /\ UNCHANGED <<opts, dev, ret, g_scan_interrupted, geometry, suspect_threshold,
                   start_sector, end_sector, sample_count, current_sector, log_file,
                   summary, call, process>>

\* what perform_sector_retest hands back: its return value, the RetestResult
\* it filled in, the number of read() calls it issued and whether one failed
RetestOutcome(rv, final_category, times, average_time, nreads, io_error) ==
    [returned |-> TRUE, ret |-> rv, final_category |-> final_category,
     retest_count |-> Len(times),
     retest_times |-> times, average_time |-> average_time, reads |-> nreads,
     io_error |-> io_error]

\* perform_sector_retest, lines 85-89: the open failed
retest_open_failed == RetestOutcome(-1, "Damaged", <<>>, 0, 0, FALSE)

\* perform_sector_retest, lines 101-105: lseek failed before an attempt
retest_seek_failed(times, nreads) ==
    RetestOutcome(-1, "Damaged", times, 0, nreads, FALSE)

\* an I/O error that keeps the category the earlier attempts would give
retest_io_error_keeps_earlier(times, nreads) ==
    RetestOutcome(0, retest_final_category(times), times,
                  retest_average_time(times), nreads, TRUE)

\* perform_sector_retest, lines 127-135: the read of an attempt failed or was short
retest_io_error(times, nreads) ==
    RetestOutcome(0, "Damaged", times, 0, nreads, TRUE)

\* perform_sector_retest, lines 143-167: the attempt loop ran to its end
retest_completed(times, nreads) ==
    RetestOutcome(0, retest_final_category(times), times,
                  retest_average_time(times), nreads, FALSE)

\* handle_suspect_block returned -1: the first classification stands (lines 724-729)
RetestGaveNothing(r, notes) ==
    FinishSample([sample EXCEPT !.retest_called = TRUE, !.retest_time = -1,
                                !.attempts = r.retest_count, !.retest_result = r],
                 sample.first_time, sample.first_category, categories,
                 log_sector_result(log, current_sector, -1, "Damaged", notes))

\* handle_suspect_block returned the average: it is classified again (lines 725-728)
RetestGaveAverage(r) ==
    LET avg == r.average_time
    IN  FinishSample([sample EXCEPT !.retest_called = TRUE, !.retest_time = avg,
                                    !.attempts = r.retest_count, !.retest_result = r],
                     avg, categorize_time_category(categories, avg),
                     categorize_time(categories, avg),
                     log_sector_result(log, current_sector, avg, "Normal", "retest_passed"))

\* handle_suspect_block, lines 467-491: what it does with the outcome of the retest
handle_suspect_block(r) ==
    IF r.ret = 0
    THEN IF r.final_category = "Damaged"
         THEN RetestGaveNothing(r, "retest_confirmed_damaged")
         ELSE RetestGaveAverage(r)
    ELSE RetestGaveNothing(r, "retest_failed")

\* perform_sector_retest, lines 85-89: open of the retest descriptor
RetestOpen ==
    /\ pc = "retest_open"
    /\ \/ /\ res' = Acquire("retest_fd")
          /\ pc' = "retest_read"
          /\ sample' = [sample EXCEPT !.retest_called = TRUE,
                                       !.retest_offset = RetestOffset(current_sector)]
          /\ UNCHANGED <<categories, log, progress, retest, i>>
       \/ /\ res' = res
          /\ handle_suspect_block(retest_open_failed)
    /\ UNCHANGED <<opts, dev, ret, g_scan_interrupted, geometry, suspect_threshold,
                   start_sector, end_sector, sample_count, current_sector, log_file,
                   reads, summary, call, process>>

\* perform_sector_retest, lines 97-168: one attempt of the retest loop
RetestRead ==
    /\ pc = "retest_read"
    /\ \/ \* lseek fails: close(fd); return -1
          /\ res' = Release("retest_fd")
          /\ handle_suspect_block(retest_seek_failed(retest.retest_times, retest.reads))
       \/ \* read fails or is short: close(fd); final_category = DAMAGED; return 0
          /\ res' = Release("retest_fd")
          /\ handle_suspect_block(retest_io_error(retest.retest_times, retest.reads + 1))
       \/ \* read succeeds
          \E t \in RetestLatencies :
            LET times == Append(retest.retest_times, t)
            IN  IF retest_loop_continues(retest.config, retest.k + 1, Len(times))
                THEN /\ retest' = [retest EXCEPT !.k = @ + 1, !.retest_times = times,
                                                 !.reads = @ + 1]
                     /\ UNCHANGED <<categories, log, progress, sample, i, pc, res>>
                ELSE /\ res' = Release("retest_fd")
                     /\ handle_suspect_block(retest_completed(times, retest.reads + 1))
    /\ UNCHANGED <<opts, dev, ret, g_scan_interrupted, geometry, suspect_threshold,
                   start_sector, end_sector, sample_count, current_sector, log_file,
                   reads, summary, call, process>>

(***************************************************************************)
(* scan_device, lines 757-768: teardown and return.                        *)
(***************************************************************************)
\* lines 757-760: free(buffer); close(fd); if (log_file) fclose(log_file)
TeardownRelease ==
    [res EXCEPT !.rel["buffer"] = @ + 1,
                !.rel["fd"] = @ + 1,
                !.rel["log"] = IF log_file = "open" THEN @ + 1 ELSE @]

\* print_final_summary, lines 527-549: the items it prints
print_final_summary_items ==
    {"sectors_scanned", "progress_percent", "sectors_per_second", "scan_status"}

Cleanup ==
    /\ pc = "cleanup"
    /\ res' = TeardownRelease
    /\ log_file' = IF log_file = "open" THEN "closed" ELSE log_file
    /\ summary' = [printed |-> TRUE, interrupted |-> (g_scan_interrupted = 1),
                   sectors_scanned |-> progress.sectors_scanned,
                   items |-> print_final_summary_items]
    /\ pc' = "return"
    /\ UNCHANGED <<opts, dev, ret, g_scan_interrupted, geometry, suspect_threshold,
                   categories, start_sector, end_sector, sample_count, i,
                   current_sector, retest, sample, progress, log, reads, call, process>>

\* line 768
ReturnValue(interrupted) == IF interrupted # 0 THEN 1 ELSE 0

Return ==
    /\ pc = "return"
    /\ ret' = ReturnValue(g_scan_interrupted)
    /\ pc' = "done"
    /\ UNCHANGED <<opts, dev, g_scan_interrupted, geometry, suspect_threshold,
                   categories, start_sector, end_sector, sample_count, i,
                   current_sector, log_file, res, retest, sample, progress, log,
                   reads, summary, call, process>>

\* stdlib.h
EXIT_SUCCESS == 0
EXIT_FAILURE == 1

\* main, src/src/main.c lines 157-230: it returns before scan_device is called,
\* because parse_arguments, validate_device or check_permissions failed or
\* because the user declined the confirmation prompt
MainReturnsEarly ==
    /\ pc = "entry"
    /\ \/ \E at \in {"parse_arguments", "validate_device", "check_permissions"} :
             process' = [exited |-> TRUE, at |-> at, status |-> EXIT_FAILURE]
       \/ process' = [exited |-> TRUE, at |-> "confirmation", status |-> EXIT_SUCCESS]
    /\ pc' = "exited"
    /\ UNCHANGED <<opts, dev, ret, g_scan_interrupted, geometry, suspect_threshold,
                   categories, start_sector, end_sector, sample_count, i,
                   current_sector, log_file, res, retest, sample, progress, log,
                   reads, summary, call>>

\* main, src/src/main.c lines 235-268: the exit status after scan_device returned
MainReturn ==
    /\ pc = "done"
    /\ process' = [exited |-> TRUE, at |-> "scan_device",
                   status |-> IF ret = 0 THEN EXIT_SUCCESS ELSE EXIT_FAILURE]
    /\ pc' = "exited"
    /\ UNCHANGED <<opts, dev, ret, g_scan_interrupted, geometry, suspect_threshold,
                   categories, start_sector, end_sector, sample_count, i,
                   current_sector, log_file, res, retest, sample, progress, log,
                   reads, summary, call>>

\* signal_handler for SIGINT / SIGTERM, installed at line 561
signal_handler ==
    /\ pc \notin {"entry", "done", "exited", "tax", "pure"}
    /\ g_scan_interrupted' = 1
    /\ UNCHANGED <<opts, dev, pc, ret, geometry, suspect_threshold, categories,
                   start_sector, end_sector, sample_count, i, current_sector,
                   log_file, res, retest, sample, progress, log, reads, summary, call, process>>

Next ==
    \/ MainReturnsEarly
    \/ GeometryFails
    \/ ScanSetup
    \/ OpenDevice
    \/ OpenLog
    \/ AllocBuffer
    \/ LoopTest
    \/ ReadSector
    \/ RetestOpen
    \/ RetestRead
    \/ Cleanup
    \/ Return
    \/ MainReturn
    \/ signal_handler

Spec == Init /\ [][Next]_vars

\* the steps of scan_device itself: every call it makes returns, so the scan
\* is never stuck while one of them is enabled
ScanStep ==
    \/ GeometryFails
    \/ ScanSetup
    \/ OpenDevice
    \/ OpenLog
    \/ AllocBuffer
    \/ LoopTest
    \/ ReadSector
    \/ RetestOpen
    \/ RetestRead
    \/ Cleanup
    \/ Return
    \/ MainReturn

SpecFair == Init /\ [][Next]_vars /\ WF_vars(ScanStep)


(***************************************************************************)
(* SpecTax: the taxonomy-updating operations applied in any order to an    *)
(* initialized taxonomy.                                                   *)
(***************************************************************************)
\* latencies (ms) handed to the taxonomy operations
TaxLatencies == {1, 8, 25, 500, 30000}

\* outcomes of perform_sector_retest handed to process_retest_result
TaxRetestResults ==
    [final_category : {"Normal", "Damaged"}, average_time : {2, 25, 500}]

\* taxonomies after initialize_time_categories and an optional valid overlay
TaxTaxonomies ==
    { initialize_time_categories("NVME_SSD"),
      initialize_time_categories("HDD"),
      load_time_categories_config(initialize_time_categories("NVME_SSD"),
                                  HighSuspectConfig) }

InitTax ==
    /\ pc = "tax"
    /\ categories \in TaxTaxonomies
    /\ opts = DefaultOptions(0, 1)
    /\ dev = NvmeDevice
    /\ InitCommon

TaxUnchanged ==
    UNCHANGED <<opts, dev, pc, ret, g_scan_interrupted, geometry, suspect_threshold,
                start_sector, end_sector, sample_count, i, current_sector, log_file,
                res, retest, sample, progress, log, reads, summary, process>>

TaxCall(op, t, c, before) ==
    [op |-> op, time_ms |-> t, category |-> c, count |-> call.count + 1,
     before |-> before]

TaxCategorize ==
    /\ pc = "tax"
    /\ call.count < MaxOps
    /\ \E t \in TaxLatencies :
         /\ categories' = categorize_time(categories, t)
         /\ call' = TaxCall("categorize_time", t,
                            categorize_time_category(categories, t), categories)
    /\ TaxUnchanged

TaxCategorizeWithRetest ==
    /\ pc = "tax"
    /\ call.count < MaxOps
    /\ \E t \in TaxLatencies :
         /\ categories' = categorize_time_with_retest(categories, t)
         /\ call' = TaxCall("categorize_time_with_retest", t,
                            categorize_time_with_retest_category(categories, t),
                            categories)
    /\ TaxUnchanged

TaxProcessRetest ==
    /\ pc = "tax"
    /\ call.count < MaxOps
    /\ \E r \in TaxRetestResults :
         /\ categories' = process_retest_result(categories, r)
         /\ call' = TaxCall("process_retest_result", r.average_time,
                            process_retest_result_category(categories, r), categories)
    /\ TaxUnchanged

NextTax ==
    \/ TaxCategorize
    \/ TaxCategorizeWithRetest
    \/ TaxProcessRetest

SpecTax == InitTax /\ [][NextTax]_vars


(***************************************************************************)
(* SpecPure: the functions that compute a value from their arguments       *)
(* alone, each applied to arguments drawn from a bounded set.              *)
(***************************************************************************)
\* sequences of 3 to 5 retest latencies (RetestResult holds at most 5)
RetestTimeSeqs ==
    UNION { [1..n -> 0..MaxLatency] : n \in 3..5 }

InitPure ==
    /\ pc = "pure"
    /\ categories = set_default_categories("UNKNOWN")
    /\ opts = DefaultOptions(0, 1)
    /\ dev = NvmeDevice
    /\ InitCommon

PureUnchanged ==
    UNCHANGED <<opts, dev, pc, ret, g_scan_interrupted, geometry, suspect_threshold,
                categories, start_sector, end_sector, sample_count, i, current_sector,
                log_file, res, retest, sample, progress, log, reads, summary, process>>

PureCall(op, arg, result) == [op |-> op, arg |-> arg, result |-> result]

\* a behaviour of SpecPure applies one function once
PureReady == pc = "pure" /\ call.op = "none"

PureCalculateRetestAverage ==
    /\ PureReady
    /\ \E times \in RetestTimeSeqs :
         call' = PureCall("calculate_retest_average", times,
                          calculate_retest_average(times))
    /\ PureUnchanged

PureRetestSuspectBlock ==
    /\ PureReady
    /\ \E results \in RetestTimeSeqs :
         call' = PureCall("retest_suspect_block", results,
                          retest_suspect_block(results))
    /\ PureUnchanged

\* per-category counts handed to print_time_statistics
VerdictCountValues == {0, 3, 7, 14}

VerdictCounts ==
    { [c \in TimeCategoryType |->
          CASE c = "Excellent" -> e [] c = "Good" -> g [] c = "Normal" -> n
            [] c = "General" -> ge [] c = "Poor" -> p [] c = "Severe" -> 0
            [] c = "Suspect" -> su [] c = "Damaged" -> d] :
        e \in VerdictCountValues, g \in {0, 7, 14},
        n \in {0, 3}, ge \in {0, 16},
        p \in {0, 1}, su \in {0, 3}, d \in {0, 1} }

PurePrintTimeStatistics ==
    /\ PureReady
    /\ \E counts \in VerdictCounts :
         LET cats == [set_default_categories("UNKNOWN") EXCEPT
                         !.counts = counts,
                         !.total_reads = SumCounts(counts, TimeCategoryType)]
         IN  call' = PureCall("print_time_statistics", cats,
                              print_time_statistics(cats))
    /\ PureUnchanged

\* threshold settings handed to validate_time_categories: in order and out
\* of order, at and beyond both ends of the range 1..30000
ValidateInputs ==
    { Thresholds(e, g, n, ge, p, sv, su) :
        e \in {0, 1}, g \in {1, 2}, n \in {2, 3}, ge \in {3, 4, 30001},
        p \in {4, 5, 30002}, sv \in {5, 6, 30000, 30001, 30003},
        su \in {2, 3, 30000, 30001} }

PureValidateTimeCategories ==
    /\ PureReady
    /\ \E th \in ValidateInputs :
         call' = PureCall("validate_time_categories", th, validate_time_categories(th))
    /\ PureUnchanged

\* the device types a taxonomy is initialized for before a config is loaded
RoundTripDeviceTypes == {"NVME_SSD", "HDD", "UNKNOWN"}

\* save_time_categories_config of a validated taxonomy, then
\* load_time_categories_config of the file into an initialized taxonomy
PureSaveThenLoad ==
    /\ PureReady
    /\ \E th \in ValidateInputs, dt \in RoundTripDeviceTypes :
         /\ validate_time_categories(th) = 0
         /\ LET file == save_time_categories_config(th)
                into == initialize_time_categories(dt)
            IN  call' = PureCall("save_then_load", [saved |-> th, into |-> into],
                                 [ret  |-> load_time_categories_config_ret(file),
                                  cats |-> load_time_categories_config(into, file)])
    /\ PureUnchanged

\* scan_device, lines 619-639 and 686-709: the sample count of a uniform
\* sampling scan and the sector each iteration of its loop reads
PureUniformSchedule ==
    /\ PureReady
    /\ \E in \in UniformScheduleInputs :
         LET o     == [DefaultOptions(in.start, in.end) EXCEPT
                          !.sample_ratio = in.ratio, !.random_sampling = FALSE]
             count == SampleCount(o, in.end - in.start)
         IN  call' = PureCall("uniform_schedule", in,
                         [sample_count |-> count,
                          sectors |-> [k \in 1..count |->
                              CHOOSE x \in ScheduledSectors(o, in.start, in.end,
                                                            count, k - 1) : TRUE]])
    /\ PureUnchanged

\* what the system may report about a device node
DeviceEnvironments ==
    [name : {"nvme", "sd", "hd", "mmcblk", "vd", "other"},
     rotational : {-1, 0, 1},
     bus : {"UNKNOWN", "SATA", "ATA", "NVME", "SCSI", "USB", "MMC"},
     subsystem_nvme : BOOLEAN,
     smartctl_rpm : {0, 5400, 7200, 15000},
     capacity_gb : {0, 100, 2000},
     model : {"Unknown", "ssd", "hdd"}]

\* collect_device_info on an initialized descriptor, then
\* get_recommended_suspect_threshold on the descriptor it leaves
PureCollectDeviceInfo ==
    /\ PureReady
    /\ \E env \in DeviceEnvironments :
         LET info == collect_device_info(env)
         IN  call' = PureCall("collect_device_info", env,
                         [info |-> info,
                          recommended |-> get_recommended_suspect_threshold(info)])
    /\ PureUnchanged

NextPure ==
    \/ PureCalculateRetestAverage
    \/ PureRetestSuspectBlock
    \/ PurePrintTimeStatistics
    \/ PureValidateTimeCategories
    \/ PureSaveThenLoad
    \/ PureUniformSchedule
    \/ PureCollectDeviceInfo

SpecPure == InitPure /\ [][NextPure]_vars


(***************************************************************************)
(* Properties.                                                             *)
(***************************************************************************)
SixLevels == <<"Excellent", "Good", "Normal", "General", "Poor", "Severe">>

ThresholdOf(cats, c) ==
    CASE c = "Excellent" -> cats.excellent_max
      [] c = "Good"      -> cats.good_max
      [] c = "Normal"    -> cats.normal_max
      [] c = "General"   -> cats.general_max
      [] c = "Poor"      -> cats.poor_max
      [] c = "Severe"    -> cats.severe_max

\* the levels, walked from Excellent to Severe, whose threshold is >= t
LevelsAbove(cats, t) == { k \in 1..6 : t <= ThresholdOf(cats, SixLevels[k]) }

FirstLevelAbove(cats, t) ==
    SixLevels[CHOOSE k \in LevelsAbove(cats, t) : \A j \in LevelsAbove(cats, t) : k <= j]

\* the last sample of the scan was a failed read
LastReadFailed == sample.complete /\ sample.first_time = -1

\* the last sample of the scan was a successful read
LastReadSucceeded == sample.complete /\ sample.first_time >= 0

\* C1: a failed timed read increments the Damaged counter by exactly one and
\* leaves the Suspect counter unchanged.
C1_FailedReadCountsDamaged ==
    LastReadFailed =>
        /\ categories.counts["Damaged"] = sample.counts_before["Damaged"] + 1
        /\ categories.counts["Suspect"] = sample.counts_before["Suspect"]

\* C2: the retest is invoked for a successfully read sector if and only if
\* the taxonomy classified the read as Suspect.
C2_RetestIffSuspect ==
    LastReadSucceeded =>
        (sample.retest_called <=> sample.first_category = "Suspect")

\* C3: the final category of a sector whose first read was classified Suspect
\* is one of Excellent..Severe or Damaged, never Suspect.
C3_FinalNeverSuspect ==
    (LastReadSucceeded /\ sample.first_category = "Suspect") =>
        sample.category \in (TimeCategoryType \ {"Suspect"})

\* C4: when every retest attempt succeeds and the trimmed mean exceeds
\* 2 x severe_max, the final category is Damaged and the Damaged counter is
\* incremented by exactly one.
C4_SlowRetestIsDamaged ==
    (LastReadSucceeded /\ sample.retest_called /\ sample.retest_time >= 0
        /\ sample.retest_time > 2 * categories.severe_max) =>
        /\ sample.category = "Damaged"
        /\ categories.counts["Damaged"] = sample.counts_before["Damaged"] + 1

InSample == {"read", "retest_open", "retest_read"}

\* C5: once the cancellation flag is set, the loop starts the read of no
\* further sector, the sample in progress (its retest included) runs to
\* completion, the loop is left at the next iteration boundary, the counters
\* are those accumulated so far and scan_device returns 1.
C5_CancellationAtLoopBoundary ==
    [][ /\ (g_scan_interrupted = 1 /\ pc \notin InSample) => pc' \notin InSample
        /\ (g_scan_interrupted = 1 /\ pc = "loop") => pc' = "cleanup"
        /\ (g_scan_interrupted = 1 /\ pc \in InSample) => pc' \in InSample \cup {"loop"}
        /\ pc \in {"cleanup", "return"} => categories' = categories
        /\ (g_scan_interrupted = 1 /\ pc = "return") => (pc' = "done" /\ ret' = 1)
      ]_vars

\* a scan cancelled after its first sample and before its last one has returned
C5_Witness ==
    /\ pc = "done"
    /\ ret = 1
    /\ Len(reads) >= 1
    /\ Len(reads) < sample_count
    /\ categories.total_reads >= 1

\* C6: no resource is released more often than it was acquired, and when
\* scan_device has returned every acquired resource has been released.
C6_ResourcesReleasedOnce ==
    /\ \A r \in Resources : res.rel[r] <= res.acq[r]
    /\ pc = "done" => \A r \in Resources : res.rel[r] = res.acq[r]

\* the buffer allocation failed while the descriptor and the log were open
C6_Witness ==
    /\ pc = "done"
    /\ ret = -1
    /\ res.acq["fd"] = 1
    /\ res.acq["log"] = 1
    /\ res.acq["buffer"] = 0

\* planned_count of the schedule
PlannedCount ==
    LET total == end_sector - start_sector
        n == (total * opts.sample_ratio.num) \div opts.sample_ratio.den
        m == IF n < 1 THEN 1 ELSE n
    IN  IF m > total THEN total ELSE m

C8_CounterSumIsTotalReads ==
    CounterSum(categories) = categories.total_reads

\* C9: at the end of every scan total_reads <= planned_count.
C9_TotalReadsAtMostPlanned ==
    (pc = "done" /\ ret \in {0, 1}) => categories.total_reads <= sample_count

\* C10 as stated: categorize_time returns Suspect if t >= suspect_threshold,
\* otherwise the category of the first of the six thresholds with
\* t <= threshold, and never Damaged.
C10_FirstThresholdWins ==
    call.op = "categorize_time" =>
        /\ call.category # "Damaged"
        /\ IF call.time_ms >= call.before.suspect_threshold
           THEN call.category = "Suspect"
           ELSE /\ LevelsAbove(call.before, call.time_ms) # {}
                /\ call.category = FirstLevelAbove(call.before, call.time_ms)

\* C10 amended: as stated, and a latency below suspect_threshold that exceeds
\* all six thresholds is classified Severe.
C10_FirstThresholdWinsOrSevere ==
    call.op = "categorize_time" =>
        /\ call.category # "Damaged"
        /\ IF call.time_ms >= call.before.suspect_threshold
           THEN call.category = "Suspect"
           ELSE IF LevelsAbove(call.before, call.time_ms) # {}
                THEN call.category = FirstLevelAbove(call.before, call.time_ms)
                ELSE call.category = "Severe"

\* a latency above severe_max and below suspect_threshold was classified
C10_Witness ==
    /\ call.op = "categorize_time"
    /\ call.time_ms > call.before.severe_max
    /\ call.time_ms < call.before.suspect_threshold
    /\ call.category = "Severe"

RetestReturned == sample.complete /\ sample.retest_result.returned

\* C11: when an attempt of a retest hits an I/O error, the retest issues no
\* read after the failed one and returns an outcome whose final_category is
\* Damaged, whatever the latencies of the earlier attempts were.
C11_RetestIoErrorIsDamaged ==
    (RetestReturned /\ sample.retest_result.io_error) =>
        /\ sample.retest_result.ret = 0
        /\ sample.retest_result.final_category = "Damaged"
        /\ sample.retest_result.reads = sample.retest_result.retest_count + 1

\* a retest whose third read failed after a fast and a slow attempt
C11_Witness ==
    /\ RetestReturned
    /\ sample.retest_result.io_error
    /\ sample.retest_result.retest_times = <<2, 1000>>
    /\ sample.retest_result.reads = 3

\* C12: when no retest read fails, the retest of a suspect sector performs
\* exactly max_attempts timed reads, max_attempts being the --retries value
\* for every value in 3..10 (10 when the option is left at its default).
C12_RetestPerformsMaxAttempts ==
    (RetestReturned /\ sample.retest_result.ret = 0
        /\ ~sample.retest_result.io_error /\ opts.suspect_retries \in 3..10) =>
        sample.retest_result.reads = opts.suspect_retries

RECURSIVE SeqMin(_)
SeqMin(q) ==
    IF Len(q) = 1 THEN q[1]
    ELSE LET m == SeqMin(Tail(q)) IN IF q[1] < m THEN q[1] ELSE m

RECURSIVE SeqMax(_)
SeqMax(q) ==
    IF Len(q) = 1 THEN q[1]
    ELSE LET m == SeqMax(Tail(q)) IN IF q[1] > m THEN q[1] ELSE m

\* the mean, rounded down, of what is left of q without one minimum and one maximum
TrimmedMean(q) ==
    (SumRange(q, 1, Len(q)) - SeqMin(q) - SeqMax(q)) \div (Len(q) - 2)

\* C13: for n >= 3 successful attempts the reported mean is the average,
\* rounded down, of the n-2 latencies left after removing exactly one minimum
\* and one maximum, both in calculate_retest_average and in the older
\* retest_suspect_block.
C13_TrimmedMean ==
    (call.op \in {"calculate_retest_average", "retest_suspect_block"}
        /\ Len(call.arg) >= 3) =>
        call.result = TrimmedMean(call.arg)

\* the run report: per-category counts and the health verdict computed from them
RunReportProduced ==
    /\ summary.printed
    /\ {"category_counts", "health_verdict"} \subseteq summary.items

\* C14: every scan that entered its main loop, completed or cancelled,
\* eventually produces a run report with the per-category counts accumulated
\* so far and the health verdict computed from them.
C14_RunReportProduced ==
    (pc = "loop") ~> RunReportProduced

\* the verdict of C15, computed on the exact ratios
VerdictRule(cats) ==
    LET total == cats.total_reads
        e   == cats.counts["Excellent"]
        eg  == e + cats.counts["Good"]
        egn == eg + cats.counts["Normal"]
        bad == cats.counts["Poor"] + cats.counts["Severe"]
               + cats.counts["Suspect"] + cats.counts["Damaged"]
    IN  IF 10 * e >= 8 * total THEN "Excellent"
        ELSE IF 10 * eg >= 7 * total THEN "Good"
        ELSE IF 10 * egn >= 6 * total THEN "Normal"
        ELSE IF 10 * bad <= total THEN "Poor"
        ELSE IF 10 * bad <= 3 * total THEN "Bad"
        ELSE "Critical"

\* C15: for every taxonomy with total_reads > 0 the health verdict is given
\* by the first rule that matches (Excellent/total >= 0.8, then
\* (Excellent+Good)/total >= 0.7, then (Excellent+Good+Normal)/total >= 0.6,
\* then bad/total <= 0.1, then bad/total <= 0.3, Critical otherwise), and the
\* hardware-fault warning is attached whenever the Damaged counter is > 0.
C15_VerdictRule ==
    (call.op = "print_time_statistics" /\ call.arg.total_reads > 0) =>
        /\ call.result.verdict = VerdictRule(call.arg)
        /\ call.result.damaged_warning = (call.arg.counts["Damaged"] > 0)

\* scan_device failed because open_device_for_scan failed
OpenForScanFailed ==
    process.at = "scan_device" /\ ret = -1 /\ sample_count > 0 /\ res.acq["fd"] = 0

\* the arguments were invalid or a setup step failed
SetupFailed ==
    \/ process.at \in {"parse_arguments", "validate_device", "check_permissions"}
    \/ process.at = "scan_device" /\ ret = -1 /\ ~OpenForScanFailed

\* C16: the exit status is 0 when the scan completes normally, 1 when it was
\* cancelled by the user, 2 when arguments are invalid or setup fails and 3
\* when opening the device for the scan fails.
C16_ExitStatus ==
    process.exited =>
        /\ (process.at = "scan_device" /\ ret = 0) => process.status = 0
        /\ (process.at = "scan_device" /\ ret = 1) => process.status = 1
        /\ SetupFailed => process.status = 2
        /\ OpenForScanFailed => process.status = 3

SevenThresholds(th) ==
    {th.excellent_max, th.good_max, th.normal_max, th.general_max, th.poor_max,
     th.severe_max, th.suspect_threshold}

StrictlyIncreasing(th) ==
    /\ th.excellent_max < th.good_max
    /\ th.good_max < th.normal_max
    /\ th.normal_max < th.general_max
    /\ th.general_max < th.poor_max
    /\ th.poor_max < th.severe_max

\* C17: validate_time_categories accepts a taxonomy if and only if the six
\* thresholds Excellent..Severe are strictly increasing, suspect_threshold >=
\* normal_max and each of the seven thresholds lies in [1, 30000].
C17_ValidateAcceptsIff ==
    call.op = "validate_time_categories" =>
        (call.result = 0 <=>
            /\ StrictlyIncreasing(call.arg)
            /\ call.arg.suspect_threshold >= call.arg.normal_max
            /\ \A t \in SevenThresholds(call.arg) : t >= 1 /\ t <= 30000)

\* the config file given to the scan cannot be opened, has no valid item, or
\* yields a taxonomy that fails validation
BadConfigGiven ==
    /\ opts.has_config
    /\ \/ load_time_categories_config_ret(opts.config_file) # 0
       \/ validate_time_categories(SetupCategories(opts, dev)) # 0

\* C18: when a config file is given and it is bad, scan_device fails before
\* the scan begins: the device is not opened for scanning and no sector is
\* read.
C18_BadConfigFailsBeforeScan ==
    BadConfigGiven =>
        /\ res.acq["fd"] = 0
        /\ reads = <<>>
        /\ pc \in {"done", "exited"} /\ process.at # "confirmation" /\ ret # NotReturned
              => ret = -1

\* C19: for every taxonomy that passes validation, saving it and loading
\* the written file into any initialized taxonomy succeeds and yields exactly
\* the same seven thresholds.
C19_SaveLoadRoundTrip ==
    call.op = "save_then_load" =>
        /\ call.result.ret = 0
        /\ \A k \in ConfigKeys : call.result.cats[k] = call.arg.saved[k]

\* i * total / count rounded down, for 0 <= i < count
StrideOffset(idx, total, count) ==
    idx * (total \div count) + (idx * (total % count)) \div count

\* C20: in a uniform sampling scan (ratio < 1, not random) the number of
\* samples is max(1, floor((end - start) * ratio)) capped at end - start, the
\* i-th sector read is start + floor(i * (end - start) / planned_count), the
\* sectors read are strictly increasing and the last one is below end; the
\* range 0..1000000 at ratio 0.01 gives 10000 samples at 0, 100, 200, ...
C20_UniformSchedule ==
    call.op = "uniform_schedule" =>
        LET total   == call.arg.end - call.arg.start
            n       == (total * call.arg.ratio.num) \div call.arg.ratio.den
            m       == IF n < 1 THEN 1 ELSE n
            planned == IF m > total THEN total ELSE m
            sectors == call.result.sectors
        IN  /\ call.result.sample_count = planned
            /\ Len(sectors) = planned
            /\ \A k \in 1..Len(sectors) :
                  sectors[k] = call.arg.start + StrideOffset(k - 1, total, planned)
            /\ \A k \in 1..(Len(sectors) - 1) : sectors[k] < sectors[k + 1]
            /\ sectors[Len(sectors)] < call.arg.end
            /\ call.arg = PercentOfMillion =>
                  /\ Len(sectors) = 10000
                  /\ \A k \in 1..Len(sectors) : sectors[k] = 100 * (k - 1)

\* C21: whenever total_reads > 0 the mean latency total_time_ms / total_reads
\* lies between min_time_ms and max_time_ms, after any sequence of
\* taxonomy-updating operations.
C21_MeanBetweenMinAndMax ==
    (pc = "tax" /\ categories.total_reads > 0) =>
        /\ categories.min_time_ms * categories.total_reads <= categories.total_time_ms
        /\ categories.total_time_ms <= categories.max_time_ms * categories.total_reads

\* the record line 733 writes for the sample just processed is the last of the log
SampleLogged ==
    /\ Len(log) > 0
    /\ log[Len(log)] = LogRecord(sample.sector, sample.read_time, sample.category, "")

\* C22: while a log file is open, a successfully read sample is written to the
\* log if and only if log_threshold is 0, or its latency is >= log_threshold,
\* or its final category is one of Poor, Severe, Suspect, Damaged.
C22_LoggedIff ==
    (pc = "loop" /\ log_file = "open" /\ sample.complete /\ sample.first_time >= 0) =>
        (SampleLogged <=>
            \/ opts.log_threshold = 0
            \/ sample.read_time >= opts.log_threshold
            \/ sample.category \in {"Poor", "Severe", "Suspect", "Damaged"})

\* C23: after a sample of positive latency L ms, with wait_factor > 0, the
\* scan sleeps L * wait_factor / 100 milliseconds (here in microseconds, the
\* unit of usleep); otherwise it does not sleep between samples.
C23_WaitIsPercentOfLatency ==
    (pc = "loop" /\ sample.complete) =>
        sample.usleep = IF opts.wait_factor > 0 /\ sample.read_time > 0
                        THEN (sample.read_time * opts.wait_factor * 1000) \div 100
                        ELSE 0

\* the main loop of scan_device is running
InMainLoop == pc \in {"loop", "read", "retest_open", "retest_read"}

\* C24: the suspect threshold the scan uses is the value recommended for the
\* device class when the user gives --suspect 0, and the user's value
\* unchanged for every positive value (100 included).
C24_SuspectThresholdChoice ==
    InMainLoop =>
        suspect_threshold = IF opts.suspect_threshold = 0
                            THEN get_recommended_suspect_threshold(dev)
                            ELSE opts.suspect_threshold

\* a descriptor collect_device_info has produced
DescriptorCollected == call.op = "collect_device_info"

\* C25: for every descriptor produced by collect_device_info,
\* get_recommended_suspect_threshold returns 10 for an NVMe SSD, 20 for a SATA
\* SSD, 60 for an HDD of 10000 rpm or more, 100 for an HDD of 7200 rpm or more
\* or of unknown rate, 150 for a slower HDD, and 200 for a USB storage device.
C25_RecommendedByClass ==
    DescriptorCollected =>
        LET info == call.result.info
            rate == info.rotation_rate_rpm
        IN  /\ info.device_type = "NVME_SSD" => call.result.recommended = 10
            /\ info.device_type = "SATA_SSD" => call.result.recommended = 20
            /\ info.device_type = "HDD" =>
                  call.result.recommended =
                      IF rate >= 10000 THEN 60
                      ELSE IF rate >= 7200 \/ rate = 0 THEN 100
                      ELSE 150
            /\ info.device_type = "USB_STORAGE" => call.result.recommended = 200

\* C26: after collect_device_info every device whose bus is NVMe has class
\* NVMe SSD and is not rotational, and every device whose bus is USB has
\* class USB storage, whatever the device name and the rotational flag of sysfs.
C26_ClassFollowsBus ==
    DescriptorCollected =>
        LET info == call.result.info
        IN  /\ info.bus_type = "NVME" =>
                  info.device_type = "NVME_SSD" /\ info.is_rotational = 0
            /\ info.bus_type = "USB" => info.device_type = "USB_STORAGE"

\* C27: every descriptor returned by collect_device_info of class NVMe SSD,
\* SATA SSD, unknown SSD or USB flash storage has rotation rate 0 and is not
\* marked rotational; every descriptor of class HDD is marked rotational.
C27_RotationMatchesClass ==
    DescriptorCollected =>
        LET info == call.result.info
        IN  /\ info.device_type \in SolidStateTypes =>
                  info.rotation_rate_rpm = 0 /\ info.is_rotational # 1
            /\ info.device_type = "HDD" => info.is_rotational = 1

\* C27 witness: sysfs reports a rotating device, udevadm reports the NVMe bus
\* for a node of another name, and the descriptor is an NVMe SSD without rotation
C27_Witness ==
    /\ DescriptorCollected
    /\ call.arg.name = "other" /\ call.arg.rotational = 1 /\ call.arg.bus = "NVME"
    /\ ~call.arg.subsystem_nvme
    /\ call.result.info.device_type = "NVME_SSD"
    /\ call.result.info.is_rotational = 0
    /\ call.result.info.rotation_rate_rpm = 0

\* a retest read of the sector of the current sample has been issued
RetestReadIssued ==
    /\ sample.retest_offset # -1
    /\ retest.reads > 0 \/ sample.retest_result.reads > 0

\* C28: every retest read of a suspect sector s is issued at the byte offset
\* of the original read of s, s * logical_block_size, for every logical block
\* size the device reports.
C28_RetestAtOffsetOfRead ==
    RetestReadIssued =>
        /\ sample.offset = sample.sector * geometry.sector_size
        /\ sample.retest_offset = sample.offset

\* device capacity in bytes: BLKGETSIZE counts units of 512 bytes
CapacityBytes == 512 * geometry.total_sectors

\* C29: every read the scan issues lies inside the requested range and inside
\* the device: for each sector s read, s * logical_block_size + block_size <=
\* end * logical_block_size <= device capacity in bytes.
C29_ReadsInsideRangeAndDevice ==
    \A k \in 1..Len(reads) :
        /\ reads[k] * geometry.sector_size + opts.block_size
               <= end_sector * geometry.sector_size
        /\ end_sector * geometry.sector_size <= CapacityBytes

\* scan_device has returned from behind its main loop
ReturnedFromLoop == pc \in {"done", "exited"} /\ ret \in {0, 1}

\* the main loop ended with every planned sample processed
EveryPlannedSampleProcessed == i = sample_count

\* C30: scan_device returns 0 if and only if every planned sample was
\* processed, and 1 if and only if the main loop was left early because of
\* cancellation; a signal that arrives after the last planned sample has been
\* processed does not turn the completed scan into a cancelled one.
C30_ReturnValueTellsCompletion ==
    ReturnedFromLoop =>
        /\ ret = 0 <=> EveryPlannedSampleProcessed
        /\ ret = 1 <=> ~EveryPlannedSampleProcessed

====
